---- MODULE Spec2Model ----
(***************************************************************************)
(* scripts/download_artifacts.py: the artifact name generator, the         *)
(* existence checker, the downloader and the comparison orchestrator.      *)
(*                                                                         *)
(* A Python string is modelled as a sequence of pieces (short strings):    *)
(* the string is the concatenation of its pieces.  Every literal of the    *)
(* source is cut at the places the code looks at: the placeholder "{}",    *)
(* the architecture prefix "rv32"/"rv64", the suffix ".log".  Two strings  *)
(* built by the same code path have the same pieces, so equality of piece  *)
(* sequences is the equality the claims need.                              *)
(***************************************************************************)
EXTENDS Integers, Sequences, FiniteSets

(***************************************************************************)
(* Bounds of the model.                                                    *)
(***************************************************************************)
\* Number of commits of the history, newest first (at most Len(HashPool)).
NumCommits == 3
\* Number of things the store is seen to hold during a run: artifact names
\* with a record on page 0, and archive members other than the log.
MaxArtifacts == 3

(***************************************************************************)
(* String helpers (str.join, str.format, the `in` test, str(int)).         *)
(***************************************************************************)
PLACEHOLDER == "{}"

\* sep.join(parts)
RECURSIVE Join(_, _)
Join(sep, parts) ==
    IF Len(parts) = 0 THEN <<>>
    ELSE IF Len(parts) = 1 THEN parts[1]
    ELSE parts[1] \o sep \o Join(sep, Tail(parts))

\* s.format(*args): the k-th placeholder of s is replaced by args[k]
\* (callers always pass at least as many arguments as s has placeholders).
RECURSIVE Format(_, _)
Format(s, args) ==
    IF Len(s) = 0 THEN <<>>
    ELSE IF Head(s) = PLACEHOLDER
         THEN Head(args) \o Format(Tail(s), Tail(args))
         ELSE <<Head(s)>> \o Format(Tail(s), args)

\* piece in s
Contains(s, piece) == \E n \in 1..Len(s) : s[n] = piece

\* Number of unfilled placeholders of s.
Placeholders(s) == Cardinality({n \in 1..Len(s) : s[n] = PLACEHOLDER})

\* str(n) for n >= 0: the decimal digits.
Digit(d) == <<"0", "1", "2", "3", "4", "5", "6", "7", "8", "9">>[d + 1]
RECURSIVE Str(_)
Str(n) == IF n < 10 THEN <<Digit(n)>> ELSE Str(n \div 10) \o <<Digit(n % 10)>>

\* s.startswith(prefix)
StartsWith(s, prefix) ==
    /\ Len(prefix) <= Len(s)
    /\ SubSeq(s, 1, Len(prefix)) = prefix

(***************************************************************************)
(* get_possible_artifact_names                                             *)
(***************************************************************************)
libc == << <<"gcc-linux">>, <<"gcc-newlib">> >>
arch == << <<"rv32", "{}", "-ilp32d-", "{}">>, <<"rv64", "{}", "-lp64d-", "{}">> >>
multilib == << <<"multilib">>, <<"non-multilib">> >>
arch_extensions == << <<"gc">> >>

\* if not ("rv32" in j and k == "multilib")
Supported_NoFilter(j, k) == TRUE
Supported(j, k) == ~(Contains(j, "rv32") /\ k = <<"multilib">>)

\* The list comprehension over libc, arch, multilib (in that nesting order).
RECURSIVE all_lists_from(_, _, _)
all_lists_from(i, j, k) ==
    IF i > Len(libc) THEN <<>>
    ELSE IF j > Len(arch) THEN all_lists_from(i + 1, 1, 1)
    ELSE IF k > Len(multilib) THEN all_lists_from(i, j + 1, 1)
    ELSE (IF Supported(arch[j], multilib[k])
          THEN << Join(<<"-">>, <<libc[i], arch[j], multilib[k]>>) >>
          ELSE <<>>)
         \o all_lists_from(i, j, k + 1)

all_lists == all_lists_from(1, 1, 1)

\* name.format(ext, "{}")
FormatName(name, ext) == Format(name, <<ext, <<"{}">> >>)

\* [name.format(ext, "{}") for name in all_lists for ext in arch_extensions]
RECURSIVE all_names_from(_, _)
all_names_from(n, e) ==
    IF n > Len(all_lists) THEN <<>>
    ELSE IF e > Len(arch_extensions) THEN all_names_from(n + 1, 1)
    ELSE << FormatName(all_lists[n], arch_extensions[e]) >> \o all_names_from(n, e + 1)

get_possible_artifact_names == all_names_from(1, 1)

(***************************************************************************)
(* The commit history and the baseline resolver (get_most_recent_ci_hash), *)
(* the artifact store, the download transport and the comparator           *)
(* (compare_testsuite_log): collaborators of the script.                   *)
(***************************************************************************)
HashPool == << <<"abc123">>, <<"def456">>, <<"0a1b2c">>, <<"9f8e7d">>, <<"77aa10">> >>
\* The history, newest commit first.
History == SubSeq(HashPool, 1, NumCommits)
Pos(h) == CHOOSE n \in 1..Len(History) : History[n] = h
IsCommit(h) == \E n \in 1..Len(History) : History[n] = h
Reverse(s) == [n \in 1..Len(s) |-> s[Len(s) + 1 - n]]

\* ancestors(hash, forward_or_backward): backward gives the strictly older
\* commits, nearest first; forward the strictly newer ones, nearest first.
gcc_hashes(h, forward) ==
    IF forward THEN Reverse(SubSeq(History, 1, Pos(h) - 1))
    ELSE SubSeq(History, Pos(h) + 1, Len(History))

NO_VALID_HASH == <<"No valid hash">>

\* Page 0 of repo.get_artifacts(name): a sequence of records with an id, here
\* the page of a name the store holds and the empty page of one it does not.
\* (Transport errors of the store queries are not modelled.)
PageList == << <<[id |-> 7], [id |-> 42]>>, <<>> >>
Pages == {PageList[n] : n \in 1..Len(PageList)}
Held(page) == IF Len(page) > 0 THEN 1 ELSE 0
RECURSIVE HeldAll(_)
HeldAll(pages) ==
    IF Len(pages) = 0 THEN 0
    ELSE Held(Head(pages)) + HeldAll(Tail(pages))

\* get_valid_artifact_hash(hashes, token, artifact_name): the first candidate,
\* in the order given, whose rendered name has a record on page 0; pages[n]
\* is page 0 for artifact_name.format(hashes[n]).
FirstHit(pages) ==
    IF \E n \in 1..Len(pages) : Len(pages[n]) > 0
    THEN CHOOSE n \in 1..Len(pages) :
            /\ Len(pages[n]) > 0
            /\ \A m \in 1..(n - 1) : Len(pages[m]) = 0
    ELSE Len(pages) + 1
RECURSIVE first_valid(_, _, _)
first_valid(hashes, pages, n) ==
    IF n > Len(hashes) THEN [hash |-> NO_VALID_HASH, id |-> 0]
    ELSE IF Len(pages[n]) > 0 THEN [hash |-> hashes[n], id |-> pages[n][1].id]
    ELSE first_valid(hashes, pages, n + 1)
get_valid_artifact_hash(hashes, pages) == first_valid(hashes, pages, 1)

\* The answer of requests.get: a network failure, or a response with a status
\* and a body.  The body is a zip archive or not; an archive holds the file
\* named like the artifact or not, and another file or not.  The status and
\* the body are independent: the code reads the status only to print it.
Responses ==
    {[network |-> TRUE, status |-> 0, zip |-> FALSE, has_log |-> FALSE,
      has_other |-> FALSE]}
    \cup {[network |-> FALSE, status |-> st, zip |-> FALSE, has_log |-> FALSE,
           has_other |-> FALSE] : st \in {200, 404}}
    \cup {[network |-> FALSE, status |-> st, zip |-> TRUE, has_log |-> l,
           has_other |-> o] : st \in {200, 404}, l \in BOOLEAN, o \in BOOLEAN}
NoResponse ==
    [network |-> TRUE, status |-> 0, zip |-> FALSE, has_log |-> FALSE, has_other |-> FALSE]

\* compare_logs: writes the summary, or fails with an error carrying a text.
CompareOutcomes ==
    {[kind |-> "ok", text |-> ""]}
    \cup {[kind |-> "RuntimeError", text |-> "Malformed log"],
          [kind |-> "ValueError", text |-> "Hashes do not match"],
          [kind |-> "KeyError", text |-> "missing key"]}

(***************************************************************************)
(* check_artifact_exists                                                   *)
(***************************************************************************)
NOT_FOUND == -1
REPORT_LOG == <<"-report", ".log">>

check_artifact_exists_unguarded(artifact_name, build, report, fb, ft) ==
    LET build_name == artifact_name
        build_failed == Len(build) = 0
        fb1 == IF build_failed THEN Append(fb, build_name \o <<"|Check logs">>) ELSE fb
    IN  IF Len(report) = 0
        THEN [failed_build |-> fb1,
              failed_testsuite |->
                 Append(ft, build_name \o <<"|Cannot find testsuite artifact">>),
              ret |-> NOT_FOUND]
        ELSE [failed_build |-> fb1, failed_testsuite |-> ft, ret |-> report[1].id]

\* build, report: page 0 of the two store queries, for artifact_name and for
\* artifact_name + "-report.log".  fb, ft: the lines of failed_build.txt and
\* failed_testsuite.txt.  The result holds the lines after the call.
check_artifact_exists(artifact_name, build, report, fb, ft) ==
    LET build_name == artifact_name
        build_failed == Len(build) = 0
        fb1 == IF build_failed THEN Append(fb, build_name \o <<"|Check logs">>) ELSE fb
    IN  IF Len(report) = 0
        THEN [failed_build |-> fb1,
              failed_testsuite |->
                 IF ~build_failed
                 THEN Append(ft, build_name \o <<"|Cannot find testsuite artifact">>)
                 ELSE ft,
              ret |-> NOT_FOUND]
        ELSE [failed_build |-> fb1, failed_testsuite |-> ft, ret |-> report[1].id]

(***************************************************************************)
(* download_artifact                                                       *)
(***************************************************************************)
\* s.replace(old, new), old a piece
Replace(s, old, new) == [n \in 1..Len(s) |-> IF s[n] = old THEN new ELSE s[n]]

\* s.split(sep)[0]: the part of s before the first sep
RECURSIVE BeforeFirst(_, _)
BeforeFirst(s, sep) ==
    IF Len(s) = 0 \/ Head(s) = sep THEN <<>>
    ELSE <<Head(s)>> \o BeforeFirst(Tail(s), sep)

ArtifactUrl(artifact_id) ==
    <<"https://api.github.com/repos/patrick-rivos/riscv-gnu-toolchain/actions/artifacts/">>
    \o artifact_id \o <<"/zip">>

\* resp: the answer of requests.get; files: the paths that exist.  The result
\* is the exception raised ("none" when the call returns) and the paths left.
\* extractall creates the staging directory only when it extracts a member.
download_artifact(artifact_name, resp, files) ==
    LET artifact_zip_name == Replace(artifact_name, ".log", ".zip")
        zip_path == <<"./">> \o artifact_zip_name
        stem == BeforeFirst(artifact_name, ".log")
        written == files \cup {zip_path}
        extracted ==
            written
            \cup (IF resp.has_log \/ resp.has_other THEN {<<"./">> \o stem} ELSE {})
            \cup (IF resp.has_other THEN {<<"./">> \o stem \o <<"/", "other.txt">>} ELSE {})
    IN  IF resp.network
        THEN [raised |-> "ConnectionError", fs |-> files]
        ELSE IF ~resp.zip
        THEN [raised |-> "BadZipFile", fs |-> written]
        ELSE IF ~resp.has_log
        THEN [raised |-> "FileNotFoundError", fs |-> extracted]
        ELSE [raised |-> "none", fs |-> extracted \cup {<<"./logs/">> \o artifact_name}]

(***************************************************************************)
(* download_and_compare_all_artifacts                                      *)
(***************************************************************************)
VARIABLES
    current_hash,      \* args.hash
    pc,                \* where the run is: start, check, download_current, resolve,
                       \* compare_no_baseline, download_base, compare, done, aborted
    prev_commits,      \* gcc_hashes(current_hash, False)
    artifact_names,    \* get_possible_artifact_names()
    idx,               \* the loop's position in artifact_names
    artifact_id,       \* what check_artifact_exists returned
    base,              \* base_hash, base_id ("No valid hash" before the first search)
    failed_build,      \* lines of ./logs/failed_build.txt
    failed_testsuite,  \* lines of ./logs/failed_testsuite.txt
    no_baseline,       \* lines of ./logs/no_baseline.txt
    fs,                \* the other paths that exist (archives, logs, summaries)
    requests,          \* the downloads requested for the current template, in order
    compare_calls,     \* the invocations of compare_logs, in order
    exception,         \* the uncaught exception that ended the run, or "none"
    checked,           \* the last call of check_artifact_exists: arguments and result
    response,          \* r of download_artifact: the answer to the last of requests
    held               \* what the store has been seen to hold (names, other members)

vars == <<current_hash, pc, prev_commits, artifact_names, idx, artifact_id, base,
          failed_build, failed_testsuite, no_baseline, fs, requests, compare_calls,
          exception, checked, response, held>>

Init ==
    /\ current_hash \in {History[n] : n \in 1..Len(History)}
    /\ pc = "start"
    /\ prev_commits = <<>>
    /\ artifact_names = <<>>
    /\ idx = 1
    /\ artifact_id = NOT_FOUND
    /\ base = [hash |-> NO_VALID_HASH, id |-> 0]
    /\ failed_build = <<>>
    /\ failed_testsuite = <<>>
    /\ no_baseline = <<>>
    /\ fs = {}
    /\ requests = <<>>
    /\ compare_calls = <<>>
    /\ exception = "none"
    /\ checked = [called |-> FALSE, name |-> <<>>, build |-> <<>>,
                  report |-> <<>>, ret |-> NOT_FOUND]
    /\ response = NoResponse
    /\ held = 0

\* prev_commits = gcc_hashes(current_hash, False)
BaselineCandidates_forward(cur) == gcc_hashes(cur, TRUE)
BaselineCandidates(cur) == gcc_hashes(cur, FALSE)

\* The loop body's locals for the template at position i.
\* artifact = artifact_name.format(current_hash)
Rendered(i) == Format(artifact_names[i], <<current_hash>>)
\* compare_path = f"./summaries/{artifact + '-report-summary.md'}"
ComparePath(i) == <<"./summaries/">> \o Rendered(i) \o <<"-report-summary.md">>
\* artifact += "-report.log"
Artifact(i) == Rendered(i) \o REPORT_LOG
\* artifact_name += "-report.log"
ArtifactName(i) == artifact_names[i] \o REPORT_LOG

\* The continue / the end of the loop body.
NextTemplate ==
    /\ idx' = idx + 1
    /\ pc' = "check"

Raise(e) ==
    /\ exception' = e
    /\ pc' = "aborted"
    /\ UNCHANGED idx

Start ==
    /\ pc = "start"
    /\ prev_commits' = BaselineCandidates(current_hash)
    /\ artifact_names' = get_possible_artifact_names
    /\ pc' = "check"
    /\ UNCHANGED <<current_hash, idx, artifact_id, base, failed_build, failed_testsuite,
                   no_baseline, fs, requests, compare_calls, exception, checked,
                   response, held>>

\* artifact_id = check_artifact_exists(artifact, repo); if -1: continue
CheckArtifact ==
    /\ pc = "check"
    /\ idx <= Len(artifact_names)
    /\ \E b \in 1..Len(PageList), q \in 1..Len(PageList) :
          LET build == PageList[b]
              report == PageList[q]
              r == check_artifact_exists(Rendered(idx), build, report,
                                         failed_build, failed_testsuite)
          IN  /\ held + Held(build) + Held(report) <= MaxArtifacts
              /\ held' = held + Held(build) + Held(report)
              /\ failed_build' = r.failed_build
              /\ failed_testsuite' = r.failed_testsuite
              /\ checked' = [called |-> TRUE, name |-> Rendered(idx),
                             build |-> build, report |-> report, ret |-> r.ret]
              /\ requests' = <<>>
              /\ response' = NoResponse
              /\ artifact_id' = r.ret
              /\ IF r.ret = NOT_FOUND
                 THEN NextTemplate
                 ELSE pc' = "download_current" /\ idx' = idx
    /\ UNCHANGED <<current_hash, prev_commits, artifact_names, base, no_baseline, fs,
                   compare_calls, exception>>

\* What an answer adds to the things the store is seen to hold.
Extra(resp) == IF resp.has_other THEN 1 ELSE 0

\* download_artifact(artifact, str(artifact_id), token)
DownloadCurrent ==
    /\ pc = "download_current"
    /\ \E resp \in Responses :
          LET r == download_artifact(Artifact(idx), resp, fs)
          IN  /\ held + Extra(resp) <= MaxArtifacts
              /\ held' = held + Extra(resp)
              /\ requests' = Append(requests, [at |-> idx, name |-> Artifact(idx),
                                               url |-> ArtifactUrl(Str(artifact_id))])
              /\ response' = resp
              /\ fs' = r.fs
              /\ IF r.raised # "none"
                 THEN Raise(r.raised)
                 ELSE pc' = "resolve" /\ UNCHANGED <<idx, exception>>
    /\ UNCHANGED <<current_hash, prev_commits, artifact_names, artifact_id, base,
                   failed_build, failed_testsuite, no_baseline, compare_calls, checked>>

NoBaselineHash_untagged(cur) == cur
\* base_hash = current_hash + "-no-baseline"
NoBaselineHash(cur) == cur \o <<"-no-baseline">>

\* base_hash, base_id = get_valid_artifact_hash(prev_commits, token, artifact_name)
\* and, when there is none, the line of no_baseline.txt and the tagged base_hash
ResolveBaseline ==
    /\ pc = "resolve"
    /\ \E pages \in [1..Len(prev_commits) -> Pages] :
          /\ held + HeldAll(pages) <= MaxArtifacts
          \* the candidates after the first hit are never asked for
          /\ \A n \in 1..Len(pages) : n > FirstHit(pages) => pages[n] = <<>>
          /\ held' = held + HeldAll(pages)
          /\ LET found == get_valid_artifact_hash(prev_commits, pages)
             IN  IF found.hash = NO_VALID_HASH
                 THEN /\ no_baseline' = Append(no_baseline, Artifact(idx))
                      /\ base' = [hash |-> NoBaselineHash(current_hash), id |-> found.id]
                      /\ pc' = "compare_no_baseline"
                 ELSE /\ no_baseline' = no_baseline
                      /\ base' = found
                      /\ pc' = "download_base"
    /\ UNCHANGED <<current_hash, prev_commits, artifact_names, idx, artifact_id,
                   failed_build, failed_testsuite, fs, requests, compare_calls,
                   exception, checked, response>>

\* The arguments of compare_logs when there is no baseline: the tagged
\* base_hash is passed as both hashes, the current log as both logs.
NoBaselineArgs(base_hash, artifact, compare_path) ==
    [base_hash |-> base_hash,
     base_log |-> <<"./logs/">> \o artifact,
     current_hash |-> base_hash,
     current_log |-> <<"./logs/">> \o artifact,
     summary |-> compare_path]

BaselineArgs_swapped(base_hash, cur, artifact_name, artifact, compare_path) ==
    [base_hash |-> base_hash,
     base_log |-> <<"./logs/">> \o artifact,
     current_hash |-> cur,
     current_log |-> <<"./logs/">> \o Format(artifact_name, <<base_hash>>),
     summary |-> compare_path]

\* The arguments of compare_logs with a baseline.
BaselineArgs(base_hash, cur, artifact_name, artifact, compare_path) ==
    [base_hash |-> base_hash,
     base_log |-> <<"./logs/">> \o Format(artifact_name, <<base_hash>>),
     current_hash |-> cur,
     current_log |-> <<"./logs/">> \o artifact,
     summary |-> compare_path]

\* except (RuntimeError, ValueError) as err: the lines of failed_testsuite.txt
\* after the call, and the exception that leaves the try block ("none" when the
\* call returned or its error was caught).  Both try blocks have this handler.
HandleNoBaseline_silent(out, artifact, ft) ==
    IF out.kind \in {"ok", "RuntimeError", "ValueError"}
    THEN [failed_testsuite |-> ft, raised |-> "none"]
    ELSE [failed_testsuite |-> ft, raised |-> out.kind]
HandleNoBaseline(out, artifact, ft) ==
    IF out.kind = "ok" THEN [failed_testsuite |-> ft, raised |-> "none"]
    ELSE IF out.kind \in {"RuntimeError", "ValueError"}
    THEN [failed_testsuite |-> Append(ft, artifact \o <<"|", out.text>>), raised |-> "none"]
    ELSE [failed_testsuite |-> ft, raised |-> out.kind]

HandleBaseline_RuntimeOnly(out, artifact, ft) ==
    IF out.kind = "ok" THEN [failed_testsuite |-> ft, raised |-> "none"]
    ELSE IF out.kind \in {"RuntimeError"}
    THEN [failed_testsuite |-> Append(ft, artifact \o <<"|", out.text>>), raised |-> "none"]
    ELSE [failed_testsuite |-> ft, raised |-> out.kind]
HandleBaseline(out, artifact, ft) ==
    IF out.kind = "ok" THEN [failed_testsuite |-> ft, raised |-> "none"]
    ELSE IF out.kind \in {"RuntimeError", "ValueError"}
    THEN [failed_testsuite |-> Append(ft, artifact \o <<"|", out.text>>), raised |-> "none"]
    ELSE [failed_testsuite |-> ft, raised |-> out.kind]

\* compare_logs and its handler; then the next template.
Compared(args, out, handled) ==
    /\ compare_calls' = Append(compare_calls, [at |-> idx, args |-> args, outcome |-> out])
    /\ fs' = IF out.kind = "ok" THEN fs \cup {args.summary} ELSE fs
    /\ failed_testsuite' = handled.failed_testsuite
    /\ IF handled.raised = "none"
       THEN NextTemplate /\ UNCHANGED exception
       ELSE Raise(handled.raised)

CompareNoBaseline ==
    /\ pc = "compare_no_baseline"
    /\ \E out \in CompareOutcomes :
          Compared(NoBaselineArgs(base.hash, Artifact(idx), ComparePath(idx)), out,
                   HandleNoBaseline(out, Artifact(idx), failed_testsuite))
    /\ UNCHANGED <<current_hash, prev_commits, artifact_names, artifact_id, base,
                   failed_build, no_baseline, requests, checked, response, held>>

\* download_artifact(artifact_name.format(base_hash), str(base_id), token)
DownloadBase ==
    /\ pc = "download_base"
    /\ \E resp \in Responses :
          LET name == Format(ArtifactName(idx), <<base.hash>>)
              r == download_artifact(name, resp, fs)
          IN  /\ held + Extra(resp) <= MaxArtifacts
              /\ held' = held + Extra(resp)
              /\ requests' = Append(requests, [at |-> idx, name |-> name,
                                               url |-> ArtifactUrl(Str(base.id))])
              /\ response' = resp
              /\ fs' = r.fs
              /\ IF r.raised # "none"
                 THEN Raise(r.raised)
                 ELSE pc' = "compare" /\ UNCHANGED <<idx, exception>>
    /\ UNCHANGED <<current_hash, prev_commits, artifact_names, artifact_id, base,
                   failed_build, failed_testsuite, no_baseline, compare_calls, checked>>

Compare ==
    /\ pc = "compare"
    /\ \E out \in CompareOutcomes :
          Compared(BaselineArgs(base.hash, current_hash, ArtifactName(idx),
                                Artifact(idx), ComparePath(idx)), out,
                   HandleBaseline(out, Artifact(idx), failed_testsuite))
    /\ UNCHANGED <<current_hash, prev_commits, artifact_names, artifact_id, base,
                   failed_build, no_baseline, requests, checked, response, held>>

\* The loop is over: return.
Finish ==
    /\ pc = "check"
    /\ idx > Len(artifact_names)
    /\ pc' = "done"
    /\ UNCHANGED <<current_hash, prev_commits, artifact_names, idx, artifact_id, base,
                   failed_build, failed_testsuite, no_baseline, fs, requests,
                   compare_calls, exception, checked, response, held>>

Next ==
    \/ Start
    \/ CheckArtifact
    \/ DownloadCurrent
    \/ ResolveBaseline
    \/ CompareNoBaseline
    \/ DownloadBase
    \/ Compare
    \/ Finish

Spec == Init /\ [][Next]_vars

(***************************************************************************)
(* Properties.  T(i, x) is the i-th template with its placeholder set to x. *)
(***************************************************************************)
Templates == 1..Len(artifact_names)
T(i, x) ==
    LET s == artifact_names[i]
        p == CHOOSE n \in 1..Len(s) : s[n] = PLACEHOLDER
    IN  SubSeq(s, 1, p - 1) \o x \o SubSeq(s, p + 1, Len(s))
ReportLog(i, x) == T(i, x) \o <<"-report", ".log">>
LogPath(i, x) == <<"./logs/">> \o ReportLog(i, x)
SummaryPath(i) == <<"./summaries/">> \o T(i, current_hash) \o <<"-report-summary.md">>

\* The lines of a failure file that belong to template i.
LinesOf(file, i) ==
    LET t == T(i, current_hash)
    IN  {n \in 1..Len(file) : StartsWith(file[n], t)}
Count(file, i) == Cardinality(LinesOf(file, i))
CallsAt(i) == {n \in 1..Len(compare_calls) : compare_calls[n].at = i}
SummaryWritten(i) ==
    /\ SummaryPath(i) \in fs
    /\ \E n \in CallsAt(i) : compare_calls[n].outcome.kind = "ok"
FailureRecords(i) == Count(failed_build, i) + Count(failed_testsuite, i) + Count(no_baseline, i)
Last(s) == s[Len(s)]

\* C1 as stated: when the run has finished, every template has exactly one
\* outcome, a written summary or one failure record, never both, never two
\* records, never neither.
C1_ExactlyOneOutcome ==
    pc = "done" =>
        \A i \in Templates :
            (IF SummaryWritten(i) THEN 1 ELSE 0) + FailureRecords(i) = 1

\* C1 as amended: when the run has finished, every template has at least one
\* outcome, at most one line in each failure file and at most one comparator
\* run; a template without a comparator run has exactly one failure record, in
\* failed_build.txt or failed_testsuite.txt; a comparator run writes its summary
\* or leaves one failed_testsuite.txt line, never both; a no_baseline.txt line
\* always comes with a comparator run.
C1_OutcomePerTemplate ==
    pc = "done" =>
        \A i \in Templates :
            LET summary == IF SummaryWritten(i) THEN 1 ELSE 0
                build == Count(failed_build, i)
                testsuite == Count(failed_testsuite, i)
                nobase == Count(no_baseline, i)
                calls == Cardinality(CallsAt(i))
            IN  /\ summary + build + testsuite + nobase >= 1
                /\ build <= 1
                /\ testsuite <= 1
                /\ nobase <= 1
                /\ calls <= 1
                /\ calls = 0 => (build + testsuite = 1 /\ nobase = 0)
                /\ calls = 1 => summary + testsuite = 1
                /\ nobase = 1 => calls = 1

\* A finished run with a skipped template, and a template whose build and
\* report artifacts both exist and that has both a written summary and a
\* no_baseline.txt line.
C1_Witness ==
    /\ pc = "done"
    /\ \E i \in Templates : CallsAt(i) = {} /\ FailureRecords(i) = 1
    /\ \E i \in Templates :
          /\ SummaryWritten(i)
          /\ Count(no_baseline, i) = 1
          /\ Count(failed_build, i) = 0

\* C3: check_artifact_exists with both pages empty leaves exactly one line for
\* the name in failed_build.txt, none in failed_testsuite.txt, and returns -1;
\* with only the build page non-empty it leaves exactly one line
\* "<name>|Cannot find testsuite artifact" in failed_testsuite.txt, none in
\* failed_build.txt, and returns -1.
LinesFor(file, name) == {n \in 1..Len(file) : StartsWith(file[n], name)}
C3_CheckRecords ==
    (checked.called /\ Len(checked.report) = 0) =>
        /\ checked.ret = -1
        /\ Len(checked.build) = 0 =>
              /\ Cardinality(LinesFor(failed_build, checked.name)) = 1
              /\ Last(failed_build) = checked.name \o <<"|Check logs">>
              /\ LinesFor(failed_testsuite, checked.name) = {}
        /\ Len(checked.build) > 0 =>
              /\ Cardinality(LinesFor(failed_testsuite, checked.name)) = 1
              /\ Last(failed_testsuite) =
                    checked.name \o <<"|Cannot find testsuite artifact">>
              /\ LinesFor(failed_build, checked.name) = {}

\* The last call found the build artifact only, and an earlier call of the run
\* found neither artifact.
C3_Witness ==
    /\ checked.called
    /\ Len(checked.build) > 0
    /\ Len(checked.report) = 0
    /\ Len(failed_build) > 0
    /\ LinesFor(failed_build, checked.name) = {}

\* C8: the names are the cross-product of the tables, in table order, without
\* the combinations of the rv32 architecture with "multilib"; no name has rv32
\* together with the multilib mode; each name has one unfilled placeholder.
Combos == [n \in 1..(Len(libc) * Len(arch) * Len(multilib) * Len(arch_extensions)) |->
             LET m == n - 1
                 e == m % Len(arch_extensions)
                 k == (m \div Len(arch_extensions)) % Len(multilib)
                 j == (m \div (Len(arch_extensions) * Len(multilib))) % Len(arch)
                 i == m \div (Len(arch_extensions) * Len(multilib) * Len(arch))
             IN  <<i + 1, j + 1, k + 1, e + 1>>]
Is32BitMultilib(c) == arch[c[2]][1] = "rv32" /\ multilib[c[3]] = <<"multilib">>
NameOf(c) ==
    libc[c[1]] \o <<"-", arch[c[2]][1]>> \o arch_extensions[c[4]]
               \o <<arch[c[2]][3], "{}", "-">> \o multilib[c[3]]
KeptCombos == SelectSeq(Combos, LAMBDA c : ~Is32BitMultilib(c))
KeptNames == [n \in 1..Len(KeptCombos) |-> NameOf(KeptCombos[n])]
\* The generated names: none has rv32 with multilib, each has one unfilled
\* placeholder, no two are equal.
NamesWellFormed ==
    LET names == get_possible_artifact_names
    IN  /\ \A n \in 1..Len(names) :
              /\ ~(Contains(names[n], "rv32") /\ Last(names[n]) = "multilib")
              /\ Placeholders(names[n]) = 1
        /\ \A n \in 1..Len(names), m \in 1..Len(names) :
              names[n] = names[m] => n = m
C8_NamesAreFilteredCrossProduct ==
    pc # "start" =>
        /\ artifact_names = get_possible_artifact_names
        /\ artifact_names = KeptNames
        /\ NamesWellFormed

\* The names have been generated: rv32 names and multilib names are among them.
C8_Witness ==
    /\ pc # "start"
    /\ \E n \in Templates : Contains(artifact_names[n], "rv32")
    /\ \E n \in Templates : Last(artifact_names[n]) = "multilib"
    /\ Len(artifact_names) < Len(Combos)

\* C9 as stated: check_artifact_exists returns an identifier only when both
\* pages are non-empty, and then no failure record is written for the name;
\* whenever it writes a failure record it returns -1.
C9_RecordMeansNotFound ==
    checked.called =>
        /\ checked.ret # -1 =>
              /\ Len(checked.build) > 0
              /\ Len(checked.report) > 0
              /\ LinesFor(failed_build, checked.name) = {}
        /\ (\/ LinesFor(failed_build, checked.name) # {}
            \/ \E n \in 1..Len(failed_testsuite) :
                  failed_testsuite[n] =
                     checked.name \o <<"|Cannot find testsuite artifact">>) =>
              checked.ret = -1

\* The baseline-found path of template i: a baseline download was requested.
IsNoBaselineCall(c) == Count(no_baseline, c.at) > 0
Older(h) == IsCommit(h) /\ Pos(h) > Pos(current_hash)
InSeq(h, s) == \E n \in 1..Len(s) : s[n] = h

\* C2: the candidate sequence is obtained once, holds only commits strictly
\* older than the current one and stays as it is; every baseline that is
\* downloaded or passed to the comparator is one of its elements.
C2_BaselineStrictlyOlder ==
    pc # "start" =>
        /\ \A n \in 1..Len(prev_commits) : Older(prev_commits[n])
        /\ \A n \in 1..Len(prev_commits), m \in 1..Len(prev_commits) :
              n < m => Pos(prev_commits[n]) < Pos(prev_commits[m])
        /\ Len(prev_commits) = Len(History) - Pos(current_hash)
        /\ pc \in {"download_base", "compare"} =>
              /\ InSeq(base.hash, prev_commits)
              /\ base.hash # current_hash
        /\ \A n \in 1..Len(requests) :
              n = 2 => \E m \in 1..Len(prev_commits) :
                          requests[n].name = ReportLog(requests[n].at, prev_commits[m])
        /\ \A n \in 1..Len(compare_calls) :
              LET c == compare_calls[n]
              IN  ~IsNoBaselineCall(c) =>
                     /\ InSeq(c.args.base_hash, prev_commits)
                     /\ Older(c.args.base_hash)
                     /\ c.args.base_hash # current_hash
                     /\ c.args.base_log = LogPath(c.at, c.args.base_hash)

\* A template has been compared against a baseline that is not the nearest
\* ancestor, and the candidates have been searched again for a later template.
C2_Witness ==
    /\ pc = "compare_no_baseline"
    /\ \E n \in 1..Len(compare_calls) :
          /\ compare_calls[n].at < idx
          /\ ~IsNoBaselineCall(compare_calls[n])
          /\ Len(prev_commits) > 1
          /\ compare_calls[n].args.base_hash = prev_commits[2]

\* The state is the one right after the comparator call of the template before
\* idx: requests are still those of that template.
JustCompared ==
    /\ pc \in {"check", "done"}
    /\ Len(compare_calls) > 0
    /\ Last(compare_calls).at = idx - 1

\* C4: when no baseline is found, the line "<T(H)>-report.log" is appended to
\* no_baseline.txt, then the comparator is invoked once, with base hash
\* "H-no-baseline" and the current log as both logs; no baseline is downloaded.
C4_NoBaselineComparison ==
    /\ pc = "compare_no_baseline" =>
          /\ base.hash = current_hash \o <<"-no-baseline">>
          /\ ~IsCommit(base.hash)
          /\ Last(no_baseline) = ReportLog(idx, current_hash)
          /\ Count(no_baseline, idx) = 1
          /\ CallsAt(idx) = {}
          /\ Len(requests) = 1
          /\ requests[1].name = ReportLog(idx, current_hash)
    /\ \A i \in Templates :
          ((i < idx \/ pc = "aborted") /\ Count(no_baseline, i) > 0) =>
             /\ Cardinality(CallsAt(i)) = 1
             /\ \A n \in CallsAt(i) :
                   LET a == compare_calls[n].args
                   IN  /\ a.base_hash = current_hash \o <<"-no-baseline">>
                       /\ a.base_log = LogPath(i, current_hash)
                       /\ a.current_log = a.base_log
    /\ (JustCompared /\ IsNoBaselineCall(Last(compare_calls))) =>
          /\ Len(requests) = 1
          /\ requests[1].name = ReportLog(idx - 1, current_hash)

\* The comparator has just returned from a comparison without a baseline.
C4_Witness ==
    /\ JustCompared
    /\ IsNoBaselineCall(Last(compare_calls))
    /\ Last(compare_calls).outcome.kind = "ok"
    /\ Len(checked.build) > 0

\* C5: with a baseline B, the comparator is invoked once for the template,
\* after the current log and then the baseline log have been downloaded, with
\* (B, logs/T(B)-report.log, C, logs/T(C)-report.log,
\* summaries/T(C)-report-summary.md).
C5_BaselineComparison ==
    /\ pc = "compare" =>
          /\ CallsAt(idx) = {}
          /\ Len(requests) = 2
          /\ requests[1].name = ReportLog(idx, current_hash)
          /\ requests[2].name = ReportLog(idx, base.hash)
          /\ {LogPath(idx, current_hash), LogPath(idx, base.hash)} \subseteq fs
    /\ \A i \in Templates : Cardinality(CallsAt(i)) <= 1
    /\ \A n \in 1..Len(compare_calls) :
          LET c == compare_calls[n]
          IN  ~IsNoBaselineCall(c) =>
                 /\ IsCommit(c.args.base_hash)
                 /\ c.args = [base_hash |-> c.args.base_hash,
                              base_log |-> LogPath(c.at, c.args.base_hash),
                              current_hash |-> current_hash,
                              current_log |-> LogPath(c.at, current_hash),
                              summary |-> SummaryPath(c.at)]
    /\ (JustCompared /\ ~IsNoBaselineCall(Last(compare_calls))) =>
          /\ Last(compare_calls).args.base_hash = base.hash
          /\ Len(requests) = 2
          /\ requests[1].name = ReportLog(idx - 1, current_hash)
          /\ requests[2].name = ReportLog(idx - 1, base.hash)

\* The comparator has just returned from a comparison against a baseline that
\* is not the nearest ancestor.
C5_Witness ==
    /\ JustCompared
    /\ ~IsNoBaselineCall(Last(compare_calls))
    /\ Last(compare_calls).outcome.kind = "ok"
    /\ Len(prev_commits) > 1
    /\ Last(compare_calls).args.base_hash = prev_commits[2]

\* C6: a RuntimeError or ValueError of the comparator, with or without a
\* baseline, leaves one line "<artifact>|<error text>" in failed_testsuite.txt,
\* does not end the run, and the loop goes on to the remaining templates.
CaughtCall(c) == c.outcome.kind \in {"RuntimeError", "ValueError"}
C6_ComparatorErrorRecorded ==
    /\ \A n \in 1..Len(compare_calls) :
          LET c == compare_calls[n]
          IN  CaughtCall(c) =>
                 /\ c.at < idx
                 /\ LET line == ReportLog(c.at, current_hash) \o <<"|", c.outcome.text>>
                    IN  Cardinality({m \in 1..Len(failed_testsuite) :
                                       failed_testsuite[m] = line}) = 1
                 /\ Count(failed_testsuite, c.at) = 1
                 /\ SummaryPath(c.at) \notin fs
    /\ (JustCompared /\ CaughtCall(Last(compare_calls))) =>
          /\ exception = "none"
          /\ Last(failed_testsuite) =
                ReportLog(idx - 1, current_hash) \o <<"|", Last(compare_calls).outcome.text>>
    /\ pc = "aborted" =>
          \A n \in CallsAt(idx) :
             /\ ~CaughtCall(compare_calls[n])
             /\ compare_calls[n].outcome.kind = exception
    /\ pc = "done" => idx = Len(artifact_names) + 1

\* A finished run in which the comparator failed with a ValueError against a
\* baseline and with a RuntimeError without one, before the last template.
C6_Witness ==
    /\ pc = "done"
    /\ \E n \in 1..Len(compare_calls), m \in 1..Len(compare_calls) :
          /\ compare_calls[n].outcome.kind = "ValueError"
          /\ ~IsNoBaselineCall(compare_calls[n])
          /\ compare_calls[m].outcome.kind = "RuntimeError"
          /\ IsNoBaselineCall(compare_calls[m])
          /\ compare_calls[n].at < Len(artifact_names)
          /\ compare_calls[m].at < Len(artifact_names)

\* C7 as stated: a failed download (network failure, non-success status, no
\* archive, or the log missing from the archive) ends the run with the
\* exception uncaught: the comparator is not invoked for the template, the
\* download leaves no failure record, and no later template is processed.
DownloadFailed(resp) == resp.network \/ resp.status # 200 \/ ~resp.zip \/ ~resp.has_log
Untouched(j) ==
    /\ FailureRecords(j) = 0
    /\ CallsAt(j) = {}
    /\ \A path \in fs : path \notin {LogPath(j, current_hash), SummaryPath(j)}
C7_DownloadFailureEndsRun ==
    /\ (Len(requests) > 0 /\ DownloadFailed(response)) =>
          /\ pc = "aborted"
          /\ exception \in {"ConnectionError", "BadZipFile", "FileNotFoundError"}
          /\ CallsAt(idx) = {}
          /\ Last(requests).at = idx
          /\ Count(failed_testsuite, idx) = 0
          /\ Count(no_baseline, idx) = 0
          /\ Count(failed_build, idx) = (IF Len(checked.build) = 0 THEN 1 ELSE 0)
          /\ SummaryPath(idx) \notin fs
          /\ \A j \in Templates : j > idx => Untouched(j)
    /\ pc = "aborted" => ~ENABLED Next

\* C10 as stated: in every comparator invocation the current-hash argument is
\* the current commit hash of the run, and the current log path and the summary
\* path are rendered with that hash.
C10_CurrentHashArgument ==
    \A n \in 1..Len(compare_calls) :
        LET c == compare_calls[n]
        IN  /\ c.args.current_hash = current_hash
            /\ c.args.current_log = LogPath(c.at, current_hash)
            /\ c.args.summary = SummaryPath(c.at)
====
